---- MODULE Spec2Model ----
(***************************************************************************)
(* Chunked video upload (backend/utils/chunkedVideoUploader.aws.js):       *)
(* one upload session, its record in the session store, the chunk objects  *)
(* in the storage bucket, and the asynchronous calls that act on them      *)
(* (uploadChunk, completeChunkedUpload, cleanupChunks, getUploadProgress,  *)
(* uploadVideoInChunks).  Every await of the source is a step boundary:    *)
(* an action runs from the resolution of one await to the next await.      *)
(***************************************************************************)
EXTENDS Integers, Sequences, FiniteSets, TLC

\* ------------------------------------------------------------------ bounds
MaxSize == 3          \* file sizes 0..MaxSize (in bytes)
MaxIndex == 1         \* chunkIndex arguments 0..MaxIndex of direct calls
NumWorkers == 2       \* concurrent uploadChunk calls
MaxTime == 1          \* Date.now() and new Date() take the values 0..MaxTime
MaxRun == 5           \* file sizes 0..MaxRun (in bytes) of the uploadVideoInChunks runs
MaxDelta == 8         \* profile image sizes up to MaxDelta bytes below and above the limit
MaxTotal == 9         \* file sizes 0..MaxTotal of the chunk boundaries on their own
MaxChunk == 4         \* chunk sizes 1..MaxChunk of the chunk boundaries on their own

\* ------------------------------------------------------- program constants
\* CHUNK_SIZE is parseInt(process.env.CHUNK_SIZE) || 10 MiB: the runs modelled
\* here have CHUNK_SIZE=2 in the environment
CHUNK_SIZE == 2
MAX_RETRIES == 5

Workers == 1..NumWorkers
Indices == 0..MaxIndex
Times == 0..MaxTime
NoSession == [none |-> TRUE]
Null == "null"          \* an unset finalVideoUrl
NoTime == -1            \* an unset completedAt
NoPath == <<>>          \* no chunk path

\* ----------------------------------------------------------- session model
\* Math.ceil(a / b) for a >= 0, b > 0
Ceil(a, b) == (a + b - 1) \div b

\* uploadProgress is the quotient length / totalChunks * 100, kept exact as
\* numerator and denominator (den = 0: NaN when num = 0, Infinity otherwise)
Percent(n, total) == [num |-> n * 100, den |-> total]
PZero == [num |-> 0, den |-> 1]
PIsNaN(a) == a.den = 0 /\ a.num = 0
\* a <= b as the numbers compare (NaN compares with nothing, Infinity is above all)
PLeq(a, b) ==
    /\ ~PIsNaN(a) /\ ~PIsNaN(b)
    /\ IF b.den = 0 THEN TRUE ELSE a.den # 0 /\ a.num * b.den <= b.num * a.den
\* a = k, and 0 <= a <= 100
PEq(a, k) == a.den > 0 /\ a.num = k * a.den
PInRange(a) == a.den > 0 /\ 0 <= a.num /\ a.num <= 100 * a.den

ChunkIndices(doc) == {doc.uploadedChunks[k].chunkIndex : k \in 1..Len(doc.uploadedChunks)}
ChunkPaths(doc) == {doc.uploadedChunks[k].chunkPath : k \in 1..Len(doc.uploadedChunks)}

\* new ChunkedVideo({...}) with the schema defaults of the derived fields; of
\* the session and of its chunk records the model keeps the fields that decide
\* what the operations do (names, sizes and attempt counts are written only)
NewSession(totalChunks, bucket) ==
    [totalChunks |-> totalChunks, bucket |-> bucket,
     uploadedChunks |-> <<>>, uploadProgress |-> PZero, isComplete |-> FALSE,
     finalVideoUrl |-> Null, completedAt |-> NoTime]

calculateProgress(doc) ==
    [doc EXCEPT !.uploadProgress = Percent(Len(doc.uploadedChunks), doc.totalChunks)]

checkCompletion(doc) ==
    [doc EXCEPT !.isComplete = (Len(doc.uploadedChunks) = doc.totalChunks)]

\* Array.prototype.find: the first record with the index, or Null
FirstAt(chunks, i) ==
    LET hits == {k \in 1..Len(chunks) : chunks[k].chunkIndex = i}
    IN  IF hits = {} THEN 0 ELSE CHOOSE k \in hits : \A j \in hits : k <= j

existingChunk(doc, i) == FirstAt(doc.uploadedChunks, i)

\* uploadChunk lines 207-219: push the record, recompute the derived fields
AppendChunk(doc, rec) ==
    checkCompletion(calculateProgress(
        [doc EXCEPT !.uploadedChunks = Append(doc.uploadedChunks, rec)]))

\* ------------------------------------------------------------------- state
VARIABLES
    db,         \* the session store: the persisted record of the session, or NoSession
    objects,    \* chunk objects present in the bucket (their paths)
    manifest,   \* the manifest objects present in the bucket (their chunk references)
    wk,         \* the uploadChunk calls, one record per call slot
    cp,         \* the completeChunkedUpload calls
    cl,         \* the cleanupChunks calls
    pr,         \* the result of the last getUploadProgress call
    ini,        \* the result of initializeChunkedUpload
    ua,         \* the uploadVideoInChunks run
    fn          \* the arguments and the results of a function examined on its own

vars == <<db, objects, manifest, wk, cp, cl, pr, ini, ua, fn>>

\* chunkFilename: folder, videoId and extension are fixed within a session; the
\* path varies with Date.now() and the chunk index
chunkFilename(timestamp, chunkIndex) == <<timestamp, chunkIndex>>

NoRet == [status |-> "none", chunkPath |-> NoPath, progress |-> PZero,
          isComplete |-> FALSE, uploadAttempts |-> 0]
\* att is the attempts counter of the retry loop, failed the number of attempts
\* that ended in the catch block
IdleWorker == [pc |-> "idle", idx |-> 0, att |-> 0, failed |-> 0, path |-> NoPath,
               doc |-> NoSession, ret |-> NoRet]

\* ------------------------------------------------------------- uploadChunk
\* the caller starts uploadChunk(videoId, i, bytes); the call awaits findOne
StartUploadChunk(w, i) ==
    /\ wk[w].pc = "idle"
    /\ wk' = [wk EXCEPT ![w] = [IdleWorker EXCEPT !.pc = "find", !.idx = i]]
    /\ UNCHANGED <<db, objects, manifest, cp, cl, pr, ini, ua, fn>>

\* the throw of uploadChunk (caught and rethrown at lines 235-238)
Throw(wr) == [IdleWorker EXCEPT !.pc = "done", !.idx = wr.idx, !.att = wr.att,
                                !.failed = wr.failed,
                                !.ret.status = "error", !.ret.uploadAttempts = wr.att]

\* mutant: the path returned is that of the first record, not of the record found
AlreadyUploaded_FirstRecord(wr, doc) ==
    [IdleWorker EXCEPT !.pc = "done", !.idx = wr.idx, !.ret.status = "already_uploaded",
        !.ret.chunkPath = doc.uploadedChunks[1].chunkPath]

\* lines 109-120: the answer for an index already recorded
AlreadyUploaded(wr, doc) ==
    [IdleWorker EXCEPT !.pc = "done", !.idx = wr.idx, !.ret.status = "already_uploaded",
        !.ret.chunkPath = doc.uploadedChunks[existingChunk(doc, wr.idx)].chunkPath]

\* mutant: the check for an existing record is missing
AfterFind_NoExistingCheck(wr, doc, timestamp) ==
    IF doc = NoSession THEN Throw(wr)
    ELSE [wr EXCEPT !.pc = "put", !.doc = doc, !.att = 1,
                    !.path = chunkFilename(timestamp, wr.idx)]

\* lines 103-146: findOne resolved; either return at once or issue the first put
AfterFind(wr, doc, timestamp) ==
    IF doc = NoSession THEN Throw(wr)
    ELSE IF existingChunk(doc, wr.idx) # 0 THEN AlreadyUploaded(wr, doc)
    ELSE [wr EXCEPT !.pc = "put", !.doc = doc, !.att = 1,
                    !.path = chunkFilename(timestamp, wr.idx)]

W_Find(w, timestamp) ==
    /\ wk[w].pc = "find"
    /\ wk' = [wk EXCEPT ![w] = AfterFind(wk[w], db, timestamp)]
    /\ UNCHANGED <<db, objects, manifest, cp, cl, pr, ini, ua, fn>>

\* lines 169-175 and 207-221: the put answered with a path; the record is
\* pushed on the call's copy of the session and save() is issued
AfterPutOk(wr) ==
    [wr EXCEPT !.pc = "save",
               !.doc = AppendChunk(wr.doc, [chunkIndex |-> wr.idx, chunkPath |-> wr.path])]

\* upload(..., {upsert: false}) stores the object unless the path is taken
W_PutOk(w) ==
    /\ wk[w].pc = "put"
    /\ wk[w].path \notin objects
    /\ objects' = objects \cup {wk[w].path}
    /\ wk' = [wk EXCEPT ![w] = AfterPutOk(wk[w])]
    /\ UNCHANGED <<db, manifest, cp, cl, pr, ini, ua, fn>>

\* mutant: the loop runs while attempts <= MAX_RETRIES
AfterPutFail_OneMore(wr) ==
    LET caught == [wr EXCEPT !.failed = @ + 1]
    IN  IF wr.att <= MAX_RETRIES THEN [caught EXCEPT !.pc = "wait"] ELSE Throw(caught)

\* lines 177-204: a failed attempt either waits for the retry or throws
AfterPutFail(wr) ==
    LET caught == [wr EXCEPT !.failed = @ + 1]
    IN  IF wr.att < MAX_RETRIES THEN [caught EXCEPT !.pc = "wait"] ELSE Throw(caught)

ErrorKinds == {"network", "too_large", "duplicate"}

\* the storage answers with an error (a taken path always does)
W_PutError(w, kind) ==
    /\ wk[w].pc = "put"
    /\ (kind = "duplicate") <=> (wk[w].path \in objects)
    /\ wk' = [wk EXCEPT ![w] = AfterPutFail(wk[w])]
    /\ UNCHANGED <<db, objects, manifest, cp, cl, pr, ini, ua, fn>>

\* mutant: the put is not raced against a timeout; a put that never answers
\* leaves the call waiting
W_PutTimeout_NoTimeout(w, lands) ==
    /\ wk[w].pc = "put"
    /\ objects' = IF lands THEN objects \cup {wk[w].path} ELSE objects
    /\ wk' = [wk EXCEPT ![w].pc = "hung"]
    /\ UNCHANGED <<db, manifest, cp, cl, pr, ini, ua, fn>>

\* the timeout wins the race (line 153); the abandoned put is not cancelled:
\* its write lands in the bucket (when the path is free) or is lost
W_PutTimeout(w, lands) ==
    /\ wk[w].pc = "put"
    /\ objects' = IF lands THEN objects \cup {wk[w].path} ELSE objects
    /\ wk' = [wk EXCEPT ![w] = AfterPutFail(wk[w])]
    /\ UNCHANGED <<db, manifest, cp, cl, pr, ini, ua, fn>>

\* lines 133-146: the backoff wait is over, the next attempt is issued
W_Retry(w) ==
    /\ wk[w].pc = "wait"
    /\ wk' = [wk EXCEPT ![w].pc = "put", ![w].att = @ + 1]
    /\ UNCHANGED <<db, objects, manifest, cp, cl, pr, ini, ua, fn>>

\* save(session): the store keeps the record it is handed
save(doc) == doc

\* mutant: the attempts are reported without the successful one
Uploaded_FailedOnly(wr) ==
    [IdleWorker EXCEPT !.pc = "done", !.idx = wr.idx, !.att = wr.att, !.failed = wr.failed,
        !.ret = [status |-> "uploaded", chunkPath |-> wr.path,
                 progress |-> wr.doc.uploadProgress, isComplete |-> wr.doc.isComplete,
                 uploadAttempts |-> wr.att - 1]]

\* lines 221-233: save() resolved, the call returns
Uploaded(wr) ==
    [IdleWorker EXCEPT !.pc = "done", !.idx = wr.idx, !.att = wr.att, !.failed = wr.failed,
        !.ret = [status |-> "uploaded", chunkPath |-> wr.path,
                 progress |-> wr.doc.uploadProgress, isComplete |-> wr.doc.isComplete,
                 uploadAttempts |-> wr.att]]

W_Save(w) ==
    /\ wk[w].pc = "save"
    /\ db # NoSession
    /\ db' = save(wk[w].doc)
    /\ wk' = [wk EXCEPT ![w] = Uploaded(wk[w])]
    /\ UNCHANGED <<objects, manifest, cp, cl, pr, ini, ua, fn>>

\* save() of a record that was deleted meanwhile: the store either writes the
\* record again or rejects the save
W_SaveDeleted(w, recreate) ==
    /\ wk[w].pc = "save"
    /\ db = NoSession
    /\ IF recreate
       THEN db' = save(wk[w].doc) /\ wk' = [wk EXCEPT ![w] = Uploaded(wk[w])]
       ELSE db' = db /\ wk' = [wk EXCEPT ![w] = Throw(wk[w])]
    /\ UNCHANGED <<objects, manifest, cp, cl, pr, ini, ua, fn>>

\* the caller takes the result; the slot is free for the next call
W_Return(w) ==
    /\ wk[w].pc = "done"
    /\ wk' = [wk EXCEPT ![w] = IdleWorker]
    /\ UNCHANGED <<db, objects, manifest, cp, cl, pr, ini, ua, fn>>

\* --------------------------------------------------- completeChunkedUpload
\* Array.prototype.sort((a, b) => a.chunkIndex - b.chunkIndex): stable, in place
RECURSIVE InsertByIndex(_, _)
InsertByIndex(sorted, rec) ==
    IF sorted = <<>> THEN <<rec>>
    ELSE IF sorted[Len(sorted)].chunkIndex <= rec.chunkIndex THEN Append(sorted, rec)
    ELSE Append(InsertByIndex(SubSeq(sorted, 1, Len(sorted) - 1), rec), sorted[Len(sorted)])

RECURSIVE SortByIndex(_)
SortByIndex(chunks) ==
    IF chunks = <<>> THEN <<>>
    ELSE InsertByIndex(SortByIndex(SubSeq(chunks, 1, Len(chunks) - 1)), chunks[Len(chunks)])

\* getPublicUrl(path): the bucket's public prefix before the path
getPublicUrl(path) == <<"public">> \o path

\* lines 274-284: the chunk references of the manifest
chunkUrls(sortedChunks) ==
    [k \in 1..Len(sortedChunks) |->
        [index |-> sortedChunks[k].chunkIndex, url |-> getPublicUrl(sortedChunks[k].chunkPath)]]

\* the public URL of `${folder}/manifests/aws_${videoId}_manifest.json`
ManifestUrl == "manifest_url"

NoResult == [status |-> "none", secure_url |-> Null, chunks |-> <<>>]
IdleComplete == [pc |-> "idle", doc |-> NoSession, ret |-> NoResult]
Completers == 1..2

StartComplete(c) ==
    /\ cp[c].pc = "idle"
    /\ cp' = [cp EXCEPT ![c].pc = "find"]
    /\ UNCHANGED <<db, objects, manifest, wk, cl, pr, ini, ua, fn>>

CompleteThrow(reason) == [IdleComplete EXCEPT !.pc = "done", !.ret.status = reason]

\* mutant: the isComplete test is missing
CompleteAfterFind_NoCompleteCheck(doc) ==
    IF doc = NoSession THEN CompleteThrow("not_found")
    ELSE IF doc.finalVideoUrl # Null
         THEN [IdleComplete EXCEPT !.pc = "done",
                  !.ret = [status |-> "already_completed", secure_url |-> doc.finalVideoUrl,
                           chunks |-> chunkUrls(SortByIndex(doc.uploadedChunks))]]
    ELSE [IdleComplete EXCEPT !.pc = "put",
             !.doc = [doc EXCEPT !.uploadedChunks = SortByIndex(doc.uploadedChunks)]]

\* lines 248-316: findOne resolved; throw, answer already_completed, or sort the
\* chunks and issue the manifest put
CompleteAfterFind(doc) ==
    IF doc = NoSession THEN CompleteThrow("not_found")
    ELSE IF ~doc.isComplete THEN CompleteThrow("incomplete")
    ELSE IF doc.finalVideoUrl # Null
         THEN [IdleComplete EXCEPT !.pc = "done",
                  !.ret = [status |-> "already_completed", secure_url |-> doc.finalVideoUrl,
                           chunks |-> chunkUrls(SortByIndex(doc.uploadedChunks))]]
    ELSE [IdleComplete EXCEPT !.pc = "put",
             !.doc = [doc EXCEPT !.uploadedChunks = SortByIndex(doc.uploadedChunks)]]

C_Find(c) ==
    /\ cp[c].pc = "find"
    /\ cp' = [cp EXCEPT ![c] = CompleteAfterFind(db)]
    /\ UNCHANGED <<db, objects, manifest, wk, cl, pr, ini, ua, fn>>

\* lines 336-347: whatever the manifest put answered, the URL and the time of
\* completion are set on the call's copy and save() is issued
CompleteAfterPut(cr, time) ==
    [cr EXCEPT !.pc = "save",
               !.doc = [cr.doc EXCEPT !.finalVideoUrl = ManifestUrl, !.completedAt = time]]

\* upload(manifest, {upsert: true}) stored the manifest
C_PutOk(c, time) ==
    /\ cp[c].pc = "put"
    /\ manifest' = {chunkUrls(cp[c].doc.uploadedChunks)}
    /\ cp' = [cp EXCEPT ![c] = CompleteAfterPut(cp[c], time)]
    /\ UNCHANGED <<db, objects, wk, cl, pr, ini, ua, fn>>

\* mutant: an error of the manifest put makes the completion throw
C_PutError_Fatal(c, time) ==
    /\ cp[c].pc = "put"
    /\ cp' = [cp EXCEPT ![c] = CompleteThrow("manifest_failed")]
    /\ UNCHANGED <<db, objects, manifest, wk, cl, pr, ini, ua, fn>>

\* the storage answered with an error (lines 327-328)
C_PutError(c, time) ==
    /\ cp[c].pc = "put"
    /\ cp' = [cp EXCEPT ![c] = CompleteAfterPut(cp[c], time)]
    /\ UNCHANGED <<db, objects, manifest, wk, cl, pr, ini, ua, fn>>

\* the 30 s timeout won the race (lines 332-334); the put may have landed or not
C_PutTimeout(c, lands, time) ==
    /\ cp[c].pc = "put"
    /\ manifest' = IF lands THEN {chunkUrls(cp[c].doc.uploadedChunks)} ELSE manifest
    /\ cp' = [cp EXCEPT ![c] = CompleteAfterPut(cp[c], time)]
    /\ UNCHANGED <<db, objects, wk, cl, pr, ini, ua, fn>>

\* lines 352-373: the result of a completion
Completed(cr) ==
    [IdleComplete EXCEPT !.pc = "done",
        !.ret = [status |-> "completed", secure_url |-> cr.doc.finalVideoUrl,
                 chunks |-> chunkUrls(cr.doc.uploadedChunks)]]

C_Save(c) ==
    /\ cp[c].pc = "save"
    /\ db # NoSession
    /\ db' = save(cp[c].doc)
    /\ cp' = [cp EXCEPT ![c] = Completed(cp[c])]
    /\ UNCHANGED <<objects, manifest, wk, cl, pr, ini, ua, fn>>

C_SaveDeleted(c, recreate) ==
    /\ cp[c].pc = "save"
    /\ db = NoSession
    /\ IF recreate
       THEN db' = save(cp[c].doc) /\ cp' = [cp EXCEPT ![c] = Completed(cp[c])]
       ELSE db' = db /\ cp' = [cp EXCEPT ![c] = CompleteThrow("save_failed")]
    /\ UNCHANGED <<objects, manifest, wk, cl, pr, ini, ua, fn>>

C_Return(c) ==
    /\ cp[c].pc = "done"
    /\ cp' = [cp EXCEPT ![c] = IdleComplete]
    /\ UNCHANGED <<db, objects, manifest, wk, cl, pr, ini, ua, fn>>

\* ----------------------------------------------------------- cleanupChunks
\* ret is what the call logged: "not_found", "skipped", "cleaned", or "failed"
\* when the remove or the deleteOne failed (the call itself returns undefined)
IdleCleanup == [pc |-> "idle", force |-> FALSE, paths |-> {}, ret |-> "none"]
Cleaners == 1..1

StartCleanup(g, force) ==
    /\ cl[g].pc = "idle"
    /\ cl' = [cl EXCEPT ![g] = [IdleCleanup EXCEPT !.pc = "find", !.force = force]]
    /\ UNCHANGED <<db, objects, manifest, wk, cp, pr, ini, ua, fn>>

\* the call returns
CleanupReturn(gr, logged) ==
    [IdleCleanup EXCEPT !.pc = "done", !.force = gr.force,
                        !.ret = IF gr.ret = "failed" THEN "failed" ELSE logged]

\* mutant: the isComplete test is missing
CleanupAfterFind_NoCompleteCheck(gr, doc) ==
    IF doc = NoSession THEN CleanupReturn(gr, "not_found")
    ELSE IF ChunkPaths(doc) # {} THEN [gr EXCEPT !.pc = "remove", !.paths = ChunkPaths(doc)]
    ELSE IF gr.force THEN [gr EXCEPT !.pc = "delete"]
    ELSE CleanupReturn(gr, "cleaned")

\* lines 388-407 and 425-427: findOne resolved; return, issue the batched
\* remove, or (nothing to remove, forced) issue deleteOne
CleanupAfterFind(gr, doc) ==
    IF doc = NoSession THEN CleanupReturn(gr, "not_found")
    ELSE IF ~gr.force /\ doc.isComplete THEN CleanupReturn(gr, "skipped")
    ELSE IF ChunkPaths(doc) # {} THEN [gr EXCEPT !.pc = "remove", !.paths = ChunkPaths(doc)]
    ELSE IF gr.force THEN [gr EXCEPT !.pc = "delete"]
    ELSE CleanupReturn(gr, "cleaned")

G_Find(g) ==
    /\ cl[g].pc = "find"
    /\ cl' = [cl EXCEPT ![g] = CleanupAfterFind(cl[g], db)]
    /\ UNCHANGED <<db, objects, manifest, wk, cp, pr, ini, ua, fn>>

\* mutant: deleteOne is issued whatever force is
CleanupAfterRemove_AlwaysDelete(gr) == [gr EXCEPT !.pc = "delete", !.paths = {}]

\* mutant: a failed remove ends the cleanup
CleanupAfterRemove_StopOnFailure(gr) ==
    IF gr.force /\ gr.ret # "failed" THEN [gr EXCEPT !.pc = "delete", !.paths = {}]
    ELSE CleanupReturn(gr, "cleaned")

\* lines 413-429: after the remove settled, deleteOne is issued when forced
CleanupAfterRemove(gr) ==
    IF gr.force THEN [gr EXCEPT !.pc = "delete", !.paths = {}]
    ELSE CleanupReturn(gr, "cleaned")

G_RemoveOk(g) ==
    /\ cl[g].pc = "remove"
    /\ objects' = objects \ cl[g].paths
    /\ cl' = [cl EXCEPT ![g] = CleanupAfterRemove(cl[g])]
    /\ UNCHANGED <<db, manifest, wk, cp, pr, ini, ua, fn>>

\* the remove answered with an error, or the 60 s timeout won the race
G_RemoveFail(g) ==
    /\ cl[g].pc = "remove"
    /\ cl' = [cl EXCEPT ![g] = CleanupAfterRemove([cl[g] EXCEPT !.ret = "failed"])]
    /\ UNCHANGED <<db, objects, manifest, wk, cp, pr, ini, ua, fn>>

\* deleteOne({videoId})
G_Delete(g) ==
    /\ cl[g].pc = "delete"
    /\ db' = NoSession
    /\ cl' = [cl EXCEPT ![g] = CleanupReturn(cl[g], "cleaned")]
    /\ UNCHANGED <<objects, manifest, wk, cp, pr, ini, ua, fn>>

\* mutant: the rejection of deleteOne leaves the call as its own rejection
G_DeleteFail_Propagates(g) ==
    /\ cl[g].pc = "delete"
    /\ cl' = [cl EXCEPT ![g] = [IdleCleanup EXCEPT !.pc = "done", !.force = cl[g].force,
                                                   !.ret = "threw"]]
    /\ UNCHANGED <<db, objects, manifest, wk, cp, pr, ini, ua, fn>>

\* deleteOne rejected: caught at lines 431-433
G_DeleteFail(g) ==
    /\ cl[g].pc = "delete"
    /\ cl' = [cl EXCEPT ![g] = CleanupReturn(cl[g], "failed")]
    /\ UNCHANGED <<db, objects, manifest, wk, cp, pr, ini, ua, fn>>

\* the caller goes on after the call
G_Return(g) ==
    /\ cl[g].pc = "done"
    /\ cl' = [cl EXCEPT ![g] = IdleCleanup]
    /\ UNCHANGED <<db, objects, manifest, wk, cp, pr, ini, ua, fn>>

\* ------------------------------------------------- initializeChunkedUpload
VideoExtensions == {"mp4", "mov", "avi", "wmv", "mkv", "flv", "webm"}
\* mutant: application/octet-stream is not among the video types
AllowedVideos_NoOctetStream ==
    {<<"video", "mp4">>, <<"video", "mpeg">>, <<"video", "quicktime">>,
     <<"video", "x-msvideo">>, <<"video", "webm">>, <<"video", "x-matroska">>,
     <<"video", "x-flv">>, <<"video", "x-ms-wmv">>}

AllowedVideos == {<<"video", "mp4">>, <<"video", "mpeg">>, <<"video", "quicktime">>,
                  <<"video", "x-msvideo">>, <<"video", "webm">>, <<"video", "x-matroska">>,
                  <<"video", "x-flv">>, <<"video", "x-ms-wmv">>,
                  <<"application", "octet-stream">>}
AllowedDocuments == {<<"application", "pdf">>, <<"application", "msword">>}
AllowedImages == {<<"image", "jpeg">>, <<"image", "jpg">>, <<"image", "png">>,
                  <<"image", "gif">>, <<"image", "webp">>}

\* getBucketForFileType(mimetype, folder, originalname); ext is the lower-cased
\* extension of originalname ("" when there is none)
getBucketForFileType(mimetype, folder, ext) ==
    IF mimetype \in AllowedVideos \/ ext \in VideoExtensions
         \/ (mimetype = <<"application", "octet-stream">> /\ ext = "mkv")
    THEN "videos"
    ELSE IF mimetype \in AllowedDocuments THEN "documents"
    ELSE IF mimetype \in AllowedImages
         THEN IF folder = "profile" THEN "profiles"
              ELSE IF folder = "courses" THEN "courses"
              ELSE IF folder = "chat" THEN "chat-files"
              ELSE "images"
    ELSE "images"

\* mutant: every application/octet-stream file passes
isVideo_AnyOctetStream(file) ==
    \/ file.mimetype[1] = "video"
    \/ file.ext \in VideoExtensions
    \/ file.mimetype = <<"application", "octet-stream">>

\* lines 35-40
isVideo(file) ==
    \/ file.mimetype[1] = "video"
    \/ file.ext \in VideoExtensions
    \/ (file.mimetype = <<"application", "octet-stream">> /\ file.ext = "mkv")

NoInit == [status |-> "none", totalChunks |-> 0, bucket |-> "none"]

\* lines 26-94: the outcome of initialize (the call site passes no originalname
\* to getBucketForFileType, whose parameter then defaults to '')
initializeChunkedUpload(file, folder) ==
    IF ~file.buffer THEN [NoInit EXCEPT !.status = "error"]
    ELSE IF ~isVideo(file) THEN [NoInit EXCEPT !.status = "error"]
    ELSE [status |-> "ok", totalChunks |-> Ceil(file.size, CHUNK_SIZE),
          bucket |-> getBucketForFileType(file.mimetype, folder, "")]

\* the files of the upload runs: video/mp4 buffers of every size, and a file
\* without buffer
UploadFiles ==
    [buffer : {TRUE}, mimetype : {<<"video", "mp4">>}, ext : {"mp4"}, size : 0..MaxSize]
    \cup [buffer : {FALSE}, mimetype : {<<"video", "mp4">>}, ext : {"mp4"}, size : {0}]

Initialize(file, folder) ==
    /\ ini.status = "none"
    /\ ini' = initializeChunkedUpload(file, folder)
    /\ db' = IF ini'.status = "ok" THEN NewSession(ini'.totalChunks, ini'.bucket) ELSE db
    /\ UNCHANGED <<objects, manifest, wk, cp, cl, pr, ua, fn>>

\* ------------------------------------------------------- getUploadProgress
NoProgress == [status |-> "none", progress |-> PZero, uploadedChunks |-> 0,
               totalChunks |-> 0, isComplete |-> FALSE, finalVideoUrl |-> Null]

\* mutant: the number of uploaded chunks is reported as the total
getUploadProgress_TotalAsUploaded(doc) ==
    IF doc = NoSession THEN [NoProgress EXCEPT !.status = "error"]
    ELSE [status |-> "ok", progress |-> doc.uploadProgress,
          uploadedChunks |-> doc.totalChunks, totalChunks |-> doc.totalChunks,
          isComplete |-> doc.isComplete, finalVideoUrl |-> doc.finalVideoUrl]

\* lines 439-465: the record read by findOne decides the whole result
getUploadProgress(doc) ==
    IF doc = NoSession THEN [NoProgress EXCEPT !.status = "error"]
    ELSE [status |-> "ok", progress |-> doc.uploadProgress,
          uploadedChunks |-> Len(doc.uploadedChunks), totalChunks |-> doc.totalChunks,
          isComplete |-> doc.isComplete, finalVideoUrl |-> doc.finalVideoUrl]

GetProgress ==
    /\ pr' = getUploadProgress(db)
    /\ UNCHANGED <<db, objects, manifest, wk, cp, cl, ini, ua, fn>>

\* ------------------------------------------------------------------- Init
\* no function is examined on its own
NoFn == [of |-> "none"]

\* dispatched is the list of the batches launched so far, each the set of its
\* chunk indices (what line 491 logs)
IdleRun == [pc |-> "idle", totalChunks |-> 0, maxc |-> 0, batchStart |-> 0,
            doc |-> NoSession, status |-> "none", dispatched |-> <<>>]

\* no session, an empty bucket, no call under way
Fresh ==
    /\ db = NoSession
    /\ objects = {}
    /\ manifest = {}
    /\ wk = [w \in Workers |-> IdleWorker]
    /\ cp = [c \in Completers |-> IdleComplete]
    /\ cl = [g \in Cleaners |-> IdleCleanup]
    /\ pr = NoProgress
    /\ ini = NoInit
    /\ ua = IdleRun

Init == Fresh /\ fn = NoFn

\* ------------------------------------- the caller contract, called directly
WorkerStep(w) ==
    \/ \E timestamp \in Times : W_Find(w, timestamp)
    \/ W_PutOk(w)
    \/ \E kind \in ErrorKinds : W_PutError(w, kind)
    \/ \E lands \in BOOLEAN : W_PutTimeout(w, lands)
    \/ W_Retry(w)
    \/ W_Save(w)
    \/ \E recreate \in BOOLEAN : W_SaveDeleted(w, recreate)

CompleteStep(c) ==
    \/ C_Find(c)
    \/ \E time \in Times : C_PutOk(c, time)
    \/ \E time \in Times : C_PutError(c, time)
    \/ \E lands \in BOOLEAN, time \in Times : C_PutTimeout(c, lands, time)
    \/ C_Save(c)

CleanupStep(g) ==
    \/ G_Find(g)
    \/ G_RemoveOk(g)
    \/ G_RemoveFail(g)
    \/ G_Delete(g)
    \/ G_DeleteFail(g)

\* one call of each operation at a time, the three running concurrently
Next ==
    \/ \E file \in UploadFiles : Initialize(file, "videos")
    \/ \E i \in Indices : StartUploadChunk(1, i)
    \/ WorkerStep(1) \/ W_Return(1)
    \/ StartComplete(1)
    \/ CompleteStep(1) \/ C_Return(1)
    \/ \E recreate \in BOOLEAN : C_SaveDeleted(1, recreate)
    \/ \E force \in BOOLEAN : StartCleanup(1, force)
    \/ CleanupStep(1) \/ G_Return(1)

Spec == Init /\ [][Next]_vars

\* ------------------------------------------- uploadChunk calls on their own
NextWorkers ==
    \/ \E file \in UploadFiles : Initialize(file, "videos")
    \/ \E w \in Workers, i \in Indices : StartUploadChunk(w, i)
    \/ \E w \in Workers, timestamp \in Times : W_Find(w, timestamp)
    \/ \E w \in Workers : W_PutOk(w)
    \/ \E w \in Workers, kind \in ErrorKinds : W_PutError(w, kind)
    \/ \E w \in Workers, lands \in BOOLEAN : W_PutTimeout(w, lands)
    \/ \E w \in Workers : W_Retry(w)
    \/ \E w \in Workers : W_Save(w)
    \/ \E w \in Workers : W_Return(w)

SpecWorkers == Init /\ [][NextWorkers]_vars

\* ----------------------------------------------------- uploadVideoInChunks
Min(a, b) == IF a < b THEN a ELSE b

\* mutant: the end of the batch is not cut at totalChunks
batchEnd_NoMin(run) == run.batchStart + run.maxc

\* line 488
batchEnd(run) == Min(run.batchStart + run.maxc, run.totalChunks)

\* the call slots of the members of the current batch: slot k runs chunk
\* batchStart + k - 1
BatchMembers(run) == 1..(batchEnd(run) - run.batchStart)

\* mutant: every call slot is started, whatever maxConcurrentChunks
LaunchBatch_EverySlot(run) ==
    [w \in Workers |-> [IdleWorker EXCEPT !.pc = "find", !.idx = run.batchStart + w - 1]]

\* lines 494-513: one uploadChunk call per index of the batch, each up to its
\* first await
LaunchBatch(run) ==
    [w \in Workers |->
        IF w \in BatchMembers(run)
        THEN [IdleWorker EXCEPT !.pc = "find", !.idx = run.batchStart + w - 1]
        ELSE IdleWorker]

\* lines 487-517: the loop test; either the next batch is awaited or the loop
\* is over and the session is read again
EnterLoop(run) ==
    IF run.batchStart < run.totalChunks
    THEN [run EXCEPT !.pc = "await",
                     !.dispatched = Append(@, run.batchStart..(batchEnd(run) - 1))]
    ELSE [run EXCEPT !.pc = "verify"]

RunFailed(run, why) == [run EXCEPT !.pc = "failed", !.status = why, !.doc = NoSession]

\* the files of the uploadVideoInChunks runs: up to Ceil(MaxRun, CHUNK_SIZE) chunks
RunFiles ==
    [buffer : {TRUE}, mimetype : {<<"video", "mp4">>}, ext : {"mp4"}, size : 0..MaxRun]
    \cup [buffer : {FALSE}, mimetype : {<<"video", "mp4">>}, ext : {"mp4"}, size : {0}]

\* lines 470-517: initialize, then the first batch; maxConcurrentChunks is the
\* process-wide setting m
UA_Start(file, m) ==
    /\ ua.pc = "idle"
    /\ ini.status = "none"
    /\ ini' = initializeChunkedUpload(file, "videos")
    /\ IF ini'.status = "ok"
       THEN LET run == EnterLoop([IdleRun EXCEPT !.totalChunks = ini'.totalChunks, !.maxc = m])
            IN  /\ db' = NewSession(ini'.totalChunks, ini'.bucket)
                /\ ua' = run
                /\ wk' = IF run.pc = "await" THEN LaunchBatch(run) ELSE wk
       ELSE /\ ua' = RunFailed(ua, "init_error")
            /\ UNCHANGED <<db, wk>>
    /\ UNCHANGED <<objects, manifest, cp, cl, pr, fn>>

\* lines 517-525: Promise.all fulfilled, every member returned a result
UA_BatchOk ==
    /\ ua.pc = "await"
    /\ \A w \in BatchMembers(ua) : wk[w].pc = "done" /\ wk[w].ret.status # "error"
    /\ ua' = IF batchEnd(ua) < ua.totalChunks THEN [ua EXCEPT !.pc = "pause"]
             ELSE [ua EXCEPT !.pc = "verify"]
    /\ wk' = [w \in Workers |-> IdleWorker]
    /\ UNCHANGED <<db, objects, manifest, cp, cl, pr, ini, fn>>

\* the pause between batches is over: the loop goes on with the next batch
UA_NextBatch ==
    /\ ua.pc = "pause"
    /\ LET run == EnterLoop([ua EXCEPT !.batchStart = @ + ua.maxc])
       IN  /\ ua' = run
           /\ wk' = IF run.pc = "await" THEN LaunchBatch(run) ELSE wk
    /\ UNCHANGED <<db, objects, manifest, cp, cl, pr, ini, fn>>

\* lines 526-532: Promise.all rejected, a member threw; cleanupChunks(videoId,
\* true) is called
UA_BatchFail ==
    /\ ua.pc = "await"
    /\ \E w \in BatchMembers(ua) : wk[w].pc = "done" /\ wk[w].ret.status = "error"
    /\ ua' = [ua EXCEPT !.pc = "cleanup"]
    /\ cl' = [cl EXCEPT ![1] = [IdleCleanup EXCEPT !.pc = "find", !.force = TRUE]]
    /\ UNCHANGED <<db, objects, manifest, wk, cp, pr, ini, fn>>

\* line 537: cleanup returned, the batch error is thrown
UA_CleanupDone ==
    /\ ua.pc = "cleanup"
    /\ cl[1].pc = "done"
    /\ ua' = RunFailed(ua, "batch_error")
    /\ UNCHANGED <<db, objects, manifest, wk, cp, cl, pr, ini, fn>>

\* lines 543-557: the session is read again and its chunk count compared
AfterVerify(run, doc) ==
    IF doc = NoSession THEN RunFailed(run, "not_found")
    ELSE IF Len(doc.uploadedChunks) # run.totalChunks THEN RunFailed(run, "incomplete")
    ELSE [run EXCEPT !.pc = "save", !.doc = checkCompletion(calculateProgress(doc))]

UA_Verify ==
    /\ ua.pc = "verify"
    /\ ua' = AfterVerify(ua, db)
    /\ UNCHANGED <<db, objects, manifest, wk, cp, cl, pr, ini, fn>>

\* lines 557-582: save() resolved; completeChunkedUpload is called
UA_Save ==
    /\ ua.pc = "save"
    /\ db' = save(ua.doc)
    /\ IF ua.doc.isComplete
       THEN /\ ua' = [ua EXCEPT !.pc = "complete", !.doc = NoSession]
            /\ cp' = [cp EXCEPT ![1].pc = "find"]
       ELSE /\ ua' = RunFailed(ua, "not_complete")
            /\ cp' = cp
    /\ UNCHANGED <<objects, manifest, wk, cl, pr, ini, fn>>

\* lines 582-597: the result of completeChunkedUpload is returned, its throw
\* is thrown on
UA_CompleteDone ==
    /\ ua.pc = "complete"
    /\ cp[1].pc = "done"
    /\ ua' = IF cp[1].ret.status \in {"completed", "already_completed"}
             THEN [ua EXCEPT !.pc = "done", !.status = "completed"]
             ELSE RunFailed(ua, "complete_error")
    /\ UNCHANGED <<db, objects, manifest, wk, cp, cl, pr, ini, fn>>

NextAll ==
    \/ \E file \in RunFiles, m \in Workers : UA_Start(file, m)
    \/ \E w \in Workers : WorkerStep(w)
    \/ UA_BatchOk
    \/ UA_NextBatch
    \/ UA_BatchFail
    \/ UA_CleanupDone
    \/ UA_Verify
    \/ UA_Save
    \/ UA_CompleteDone
    \/ CompleteStep(1)
    \/ CleanupStep(1)

SpecAll == Init /\ [][NextAll]_vars

\* every await of a call under way is answered: the store and the storage
\* answer or the timer of the race fires, and the timers of the waits run out
RunStep ==
    UA_BatchOk \/ UA_NextBatch \/ UA_BatchFail \/ UA_CleanupDone \/ UA_Verify \/ UA_Save
    \/ UA_CompleteDone

FairAll ==
    /\ \A w \in Workers : WF_vars(WorkerStep(w))
    /\ WF_vars(RunStep)
    /\ WF_vars(CompleteStep(1))
    /\ WF_vars(CleanupStep(1))

SpecAllFair == SpecAll /\ FairAll

\* --------------------- getUploadProgress beside the calls that write the session
\* uploads whose puts succeed, completions, cleanups of both kinds, and
\* getUploadProgress calls at any moment between their steps
NextProgress ==
    \/ \E file \in UploadFiles : Initialize(file, "videos")
    \/ \E i \in Indices : StartUploadChunk(1, i)
    \/ \E timestamp \in Times : W_Find(1, timestamp)
    \/ W_PutOk(1) \/ W_Save(1) \/ W_Return(1)
    \/ \E recreate \in BOOLEAN : W_SaveDeleted(1, recreate)
    \/ StartComplete(1)
    \/ C_Find(1) \/ C_Save(1) \/ C_Return(1)
    \/ \E time \in Times : C_PutOk(1, time)
    \/ \E recreate \in BOOLEAN : C_SaveDeleted(1, recreate)
    \/ \E force \in BOOLEAN : StartCleanup(1, force)
    \/ CleanupStep(1) \/ G_Return(1)
    \/ GetProgress

SpecProgress == Init /\ [][NextProgress]_vars

\* ----------------------------------------- the chunk boundaries on their own
\* line 495
chunkStart(i, chunkSize) == i * chunkSize

\* mutant: the end of the chunk is not cut at the end of the buffer
chunkEnd_NoMin(start, chunkSize, length) == start + chunkSize

\* line 496
chunkEnd(start, chunkSize, length) == Min(start + chunkSize, length)

\* the file sizes and the chunk sizes (CHUNK_SIZE is set by the environment)
SliceArgs == [totalSize : 0..MaxTotal, chunkSize : 1..MaxChunk]

InitSlices ==
    /\ Fresh
    /\ \E a \in SliceArgs :
          fn = [of |-> "slices", totalSize |-> a.totalSize, chunkSize |-> a.chunkSize,
                slices |-> <<>>]

\* lines 487-497: one pass of the loops over i = 0..totalChunks-1 (the batches
\* taken one after the other): the bytes [start, end) of chunk i are sliced
SliceChunk ==
    LET i == Len(fn.slices)
        start == chunkStart(i, fn.chunkSize)
    IN  /\ i < Ceil(fn.totalSize, fn.chunkSize)
        /\ fn' = [fn EXCEPT !.slices =
                     Append(@, [start |-> start,
                                end |-> chunkEnd(start, fn.chunkSize, fn.totalSize)])]
        /\ UNCHANGED <<db, objects, manifest, wk, cp, cl, pr, ini, ua>>

NextSlices == SliceChunk

SpecSlices == InitSlices /\ [][NextSlices]_vars

\* ------------------------------------------------- initialize on its own
\* files of every kind: with and without bytes, content types inside and
\* outside video/*, names with a video extension, another one, or none
AnyMimetypes == {<<"video", "mp4">>, <<"video", "ogg">>, <<"application", "octet-stream">>,
                 <<"application", "pdf">>, <<"image", "png">>, <<"text", "plain">>}
AnyExtensions == {"mp4", "mkv", "webm", "png", "txt", ""}
AnyFiles == [buffer : BOOLEAN, mimetype : AnyMimetypes, ext : AnyExtensions, size : 0..MaxSize]
Folders == {"videos", "profile", "courses", "chat"}

InitFiles ==
    /\ Fresh
    /\ \E file \in AnyFiles, folder \in Folders :
          fn = [of |-> "initialize", file |-> file, folder |-> folder]

NextFiles == Initialize(fn.file, fn.folder)

SpecFiles == InitFiles /\ [][NextFiles]_vars

\* ------------------------------------ the validation of a profile image
\* test-profile-upload.js, lines 90-91
MAX_PROFILE_SIZE == 5 * 1024 * 1024
allowedTypes == {<<"image", "jpeg">>, <<"image", "jpg">>, <<"image", "png">>,
                 <<"image", "gif">>, <<"image", "webp">>}

Valid == [success |-> TRUE, error |-> "none"]
Invalid(error) == [success |-> FALSE, error |-> error]

\* mutant: a file of exactly the limit is refused
validateProfileImage_AtLimitRefused(size, mimetype) ==
    IF size >= MAX_PROFILE_SIZE THEN Invalid("FILE_SIZE_EXCEEDED")
    ELSE IF mimetype \notin allowedTypes THEN Invalid("INVALID_FILE_TYPE")
    ELSE Valid

\* lines 93-113: the size is tested first, then the content type
validateProfileImage(size, mimetype) ==
    IF size > MAX_PROFILE_SIZE THEN Invalid("FILE_SIZE_EXCEEDED")
    ELSE IF mimetype \notin allowedTypes THEN Invalid("INVALID_FILE_TYPE")
    ELSE Valid

\* the sizes of the test cases (2, 3, 6 and 10 MB), the sizes around the limit
\* and the empty file; content types inside and outside the list
ProfileSizes ==
    {0, 2 * 1024 * 1024, 3 * 1024 * 1024, 6 * 1024 * 1024, 10 * 1024 * 1024}
    \cup {MAX_PROFILE_SIZE + d : d \in (0 - MaxDelta)..MaxDelta}
ProfileMimetypes ==
    allowedTypes \cup {<<"image", "bmp">>, <<"image", "svg+xml">>, <<"application", "pdf">>,
                       <<"application", "octet-stream">>, <<"video", "mp4">>,
                       <<"text", "plain">>}

InitProfile ==
    /\ Fresh
    /\ \E size \in ProfileSizes, mimetype \in ProfileMimetypes :
          fn = [of |-> "profile", size |-> size, mimetype |-> mimetype,
                result |-> [success |-> FALSE, error |-> "pending"]]

ValidateProfile ==
    /\ fn.result.error = "pending"
    /\ fn' = [fn EXCEPT !.result = validateProfileImage(fn.size, fn.mimetype)]
    /\ UNCHANGED <<db, objects, manifest, wk, cp, cl, pr, ini, ua>>

NextProfile == ValidateProfile

SpecProfile == InitProfile /\ [][NextProfile]_vars

\* --------------------------------- concurrent completeChunkedUpload calls
\* uploads whose puts succeed, and two completeChunkedUpload calls at a time
NextCompletes ==
    \/ \E file \in UploadFiles : Initialize(file, "videos")
    \/ \E i \in Indices : StartUploadChunk(1, i)
    \/ \E timestamp \in Times : W_Find(1, timestamp)
    \/ W_PutOk(1) \/ W_Save(1) \/ W_Return(1)
    \/ \E c \in Completers : StartComplete(c)
    \/ \E c \in Completers : CompleteStep(c)
    \/ \E c \in Completers : C_Return(c)

SpecCompletes == Init /\ [][NextCompletes]_vars

\* ------------------------------------- the wait between two attempts
\* config line 28; uploadChunk lines 184 and 185
RETRY_DELAY_BASE == 2000
JITTER_RANGE == 2000
MAX_WAIT == 30000

\* mutant: the delay doubles from the first failed attempt on
waitTime_DoubledAtOnce(uploadAttempts, jitter) ==
    Min(RETRY_DELAY_BASE * 2 ^ uploadAttempts + jitter, MAX_WAIT)

\* lines 183-185, in milliseconds
waitTime(uploadAttempts, jitter) ==
    Min(RETRY_DELAY_BASE * 2 ^ (uploadAttempts - 1) + jitter, MAX_WAIT)

\* lines 181-203: after failed attempt number uploadAttempts the call waits
\* and loops, or throws
afterFailedAttempt(uploadAttempts, jitter) ==
    IF uploadAttempts < MAX_RETRIES
    THEN [then |-> "wait", waitTime |-> waitTime(uploadAttempts, jitter)]
    ELSE [then |-> "throw", waitTime |-> 0]

\* Math.random() * 2000 lies in [0, 2000): the whole milliseconds of the range
Jitters == 0..(JITTER_RANGE - 1)

InitBackoff ==
    /\ Fresh
    /\ \E uploadAttempts \in 1..MAX_RETRIES, jitter \in Jitters :
          fn = [of |-> "backoff", uploadAttempts |-> uploadAttempts, jitter |-> jitter,
                result |-> [then |-> "pending", waitTime |-> 0]]

FailedAttempt ==
    /\ fn.result.then = "pending"
    /\ fn' = [fn EXCEPT !.result = afterFailedAttempt(fn.uploadAttempts, fn.jitter)]
    /\ UNCHANGED <<db, objects, manifest, wk, cp, cl, pr, ini, ua>>

NextBackoff == FailedAttempt

SpecBackoff == InitBackoff /\ [][NextBackoff]_vars

\* ----------------------- cleanupChunks called directly and called by a run
\* either the operations are called directly (uploads and completions whose
\* storage calls succeed, cleanups of both kinds with every outcome), or one
\* uploadVideoInChunks run is made, whose batch failure calls the cleanup
NextCleanup ==
    \/ ua.pc = "idle" /\ \E file \in UploadFiles : Initialize(file, "videos")
    \/ ua.pc = "idle" /\ \E i \in Indices : StartUploadChunk(1, i)
    \/ ua.pc = "idle" /\ \E timestamp \in Times : W_Find(1, timestamp)
    \/ ua.pc = "idle" /\ W_PutOk(1)
    \/ ua.pc = "idle" /\ W_Save(1)
    \/ ua.pc = "idle" /\ W_Return(1)
    \/ ua.pc = "idle" /\ StartComplete(1)
    \/ ua.pc = "idle" /\ C_Find(1)
    \/ ua.pc = "idle" /\ \E time \in Times : C_PutOk(1, time)
    \/ ua.pc = "idle" /\ C_Save(1)
    \/ ua.pc = "idle" /\ C_Return(1)
    \/ ua.pc = "idle" /\ \E force \in BOOLEAN : StartCleanup(1, force)
    \/ ua.pc = "idle" /\ G_Return(1)
    \/ CleanupStep(1)
    \/ Fresh /\ \E file \in RunFiles, m \in Workers : UA_Start(file, m)
    \/ ua.pc # "idle" /\ \E w \in Workers : WorkerStep(w)
    \/ UA_BatchOk
    \/ UA_NextBatch
    \/ UA_BatchFail
    \/ UA_CleanupDone
    \/ UA_Verify
    \/ UA_Save
    \/ UA_CompleteDone
    \/ ua.pc # "idle" /\ CompleteStep(1)

SpecCleanup == Init /\ [][NextCleanup]_vars

\* =================================================================== claims
HasSession == db # NoSession

\* a step in which the findOne of uploadChunk call w resolves
FindResolves(w) == wk[w].pc = "find" /\ wk'[w].pc # "find"

\* C1: when the index of an uploadChunk call is already recorded in the session
\* the call reads, the call returns already_uploaded with the path of the
\* existing record, issues no put (it never reaches the put) and leaves the
\* session record and the bucket as they are.
C1_SequentialIdempotence ==
    [][\A w \in Workers :
        (FindResolves(w) /\ HasSession /\ wk[w].idx \in ChunkIndices(db))
        => /\ wk'[w].pc = "done"
           /\ wk'[w].ret.status = "already_uploaded"
           /\ \E k \in 1..Len(db.uploadedChunks) :
                 /\ db.uploadedChunks[k].chunkIndex = wk[w].idx
                 /\ db.uploadedChunks[k].chunkPath = wk'[w].ret.chunkPath
           /\ db' = db
           /\ objects' = objects]_vars

C1_Witness ==
    \E w \in Workers :
        /\ wk[w].pc = "done" /\ wk[w].ret.status = "already_uploaded"
        /\ HasSession /\ wk[w].idx \in ChunkIndices(db)
        /\ wk[w].ret.chunkPath \in ChunkPaths(db)

\* C2: when two uploadChunk calls for distinct indices of the session have
\* both returned success, the persisted session holds a Chunk Record for both
\* indices.
C2_NoLostUpdate ==
    \A w1, w2 \in Workers :
        ( /\ wk[w1].pc = "done" /\ wk[w1].ret.status = "uploaded"
          /\ wk[w2].pc = "done" /\ wk[w2].ret.status = "uploaded"
          /\ wk[w1].idx # wk[w2].idx
          /\ HasSession
          /\ {wk[w1].idx, wk[w2].idx} \subseteq 0..(db.totalChunks - 1) )
        => {wk[w1].idx, wk[w2].idx} \subseteq ChunkIndices(db)

\* C3: the post-batch chunk-count mismatch of uploadVideoInChunks is
\* unreachable: no run fails with "upload incomplete".
C3_IntegrityErrorUnreachable == ~(ua.pc = "failed" /\ ua.status = "incomplete")

C5_IndicesInRange ==
    HasSession => \A i \in ChunkIndices(db) : 0 <= i /\ i <= db.totalChunks - 1

\* C6: in every persisted state, isComplete is true exactly when the number of
\* Chunk Records equals totalChunks.
C6_IsCompleteIffAllChunks ==
    HasSession => (db.isComplete <=> Len(db.uploadedChunks) = db.totalChunks)

\* C7: in every persisted state, progressPercent is within [0,100] and equals
\* 100 exactly when the number of Chunk Records equals totalChunks.
C7_ProgressRange ==
    HasSession =>
        /\ PInRange(db.uploadProgress)
        /\ PEq(db.uploadProgress, 100) <=> Len(db.uploadedChunks) = db.totalChunks

\* C8: no step lowers the persisted progressPercent of the session.
C8_ProgressMonotonic ==
    [][(HasSession /\ db' # NoSession) => PLeq(db.uploadProgress, db'.uploadProgress)]_vars

\* a step in which the findOne of completeChunkedUpload call c resolves
CompleteFindResolves(c) == cp[c].pc = "find" /\ cp'[c].pc # "find"

\* C9: complete on a session that is not isComplete fails with
\* IncompleteUploadError, issues no manifest put (it never reaches the put) and
\* changes neither the session record nor the bucket.
C9_IncompleteRejected ==
    [][\A c \in Completers :
        (CompleteFindResolves(c) /\ HasSession /\ ~db.isComplete)
        => /\ cp'[c].pc = "done"
           /\ cp'[c].ret.status = "incomplete"
           /\ db' = db
           /\ manifest' = manifest
           /\ objects' = objects]_vars

C9_Witness ==
    \E c \in Completers :
        /\ cp[c].pc = "done" /\ cp[c].ret.status = "incomplete"
        /\ HasSession /\ ~db.isComplete /\ db.finalVideoUrl = Null
        /\ db.completedAt = NoTime /\ manifest = {}

\* C10: once finalVideoUrl is set, a further complete returns that URL, issues
\* no manifest put and leaves the session record unchanged.
C10_CompleteIdempotent ==
    [][\A c \in Completers :
        (CompleteFindResolves(c) /\ HasSession /\ db.finalVideoUrl # Null)
        => /\ cp'[c].pc = "done"
           /\ cp'[c].ret.status = "already_completed"
           /\ cp'[c].ret.secure_url = db.finalVideoUrl
           /\ db' = db
           /\ manifest' = manifest]_vars

\* C11: the manifest payload a completion builds lists exactly totalChunks
\* chunk references, the k-th of them (from 0) being that of index k.
C11_ManifestInIndexOrder ==
    \A c \in Completers :
        cp[c].pc = "put" =>
            LET refs == chunkUrls(cp[c].doc.uploadedChunks)
            IN  /\ Len(refs) = cp[c].doc.totalChunks
                /\ \A k \in 1..Len(refs) : refs[k].index = k - 1

\* C12: whenever finalVideoUrl is set on the persisted session, the session is
\* isComplete and the number of its Chunk Records equals totalChunks.
C12_ManifestUrlOnlyWhenComplete ==
    (HasSession /\ db.finalVideoUrl # Null)
        => db.isComplete /\ Len(db.uploadedChunks) = db.totalChunks

\* C13: an uploadChunk call that returned success after k - 1 failed attempts
\* reports uploadAttempts = k, with 1 <= k <= MAX_RETRIES; a call about to
\* save has made one attempt more than have failed.
C13_AttemptsUsed ==
    \A w \in Workers :
        /\ wk[w].pc = "save" => wk[w].att = wk[w].failed + 1
        /\ (wk[w].pc = "done" /\ wk[w].ret.status = "uploaded")
           => /\ wk[w].ret.uploadAttempts = wk[w].failed + 1
              /\ 1 <= wk[w].ret.uploadAttempts
              /\ wk[w].ret.uploadAttempts <= MAX_RETRIES

\* MAX_RETRIES - 1 failed attempts, then success
C13_Witness ==
    \E w \in Workers :
        /\ wk[w].pc = "done" /\ wk[w].ret.status = "uploaded"
        /\ wk[w].failed = MAX_RETRIES - 1
        /\ wk[w].ret.uploadAttempts = MAX_RETRIES
        /\ HasSession /\ wk[w].idx \in ChunkIndices(db)

\* C14: a call whose attempts all fail throws after exactly MAX_RETRIES
\* attempts (an earlier failure leads to the wait for the next attempt), and no
\* step the call takes before its save changes the persisted session.
C14_PermanentFailure ==
    [][\A w \in Workers :
        /\ (wk[w].pc = "put" /\ wk'[w].pc = "done")
           => /\ wk[w].att = MAX_RETRIES
              /\ wk'[w].failed = MAX_RETRIES
              /\ wk'[w].ret.status = "error"
              /\ wk'[w].ret.chunkPath = NoPath
        /\ (wk[w].pc = "put" /\ wk'[w].failed = wk[w].failed + 1 /\ wk[w].att < MAX_RETRIES)
           => wk'[w].pc = "wait" /\ wk'[w].att = wk[w].att
        /\ (wk[w].pc \in {"find", "put", "wait"} /\ wk'[w] # wk[w]) => db' = db]_vars

\* a call has thrown after MAX_RETRIES failed attempts; the session has no
\* record of its index
C14_Witness ==
    \E w \in Workers :
        /\ wk[w].pc = "done" /\ wk[w].ret.status = "error"
        /\ wk[w].failed = MAX_RETRIES /\ wk[w].att = MAX_RETRIES
        /\ HasSession /\ wk[w].idx \notin ChunkIndices(db)
        /\ ~db.isComplete

\* a step in which the findOne of cleanupChunks call g resolves
CleanupFindResolves(g) == cl[g].pc = "find" /\ cl'[g].pc # "find"

\* C15: cleanupChunks(videoId, false) on a session that is isComplete returns
\* without issuing the remove (it never reaches it) and leaves the bucket and
\* the session record as they are.
C15_UnforcedCleanupKeepsCompleted ==
    [][\A g \in Cleaners :
        (CleanupFindResolves(g) /\ ~cl[g].force /\ HasSession /\ db.isComplete)
        => /\ cl'[g].pc = "done"
           /\ cl'[g].ret = "skipped"
           /\ objects' = objects
           /\ manifest' = manifest
           /\ db' = db]_vars

\* an unforced cleanup has returned on a completed session whose chunk objects
\* are all in the bucket
C15_Witness ==
    \E g \in Cleaners :
        /\ cl[g].pc = "done" /\ ~cl[g].force /\ cl[g].ret = "skipped"
        /\ HasSession /\ db.isComplete /\ db.finalVideoUrl # Null
        /\ ChunkPaths(db) # {} /\ ChunkPaths(db) \subseteq objects

\* C16: when uploadVideoInChunks has thrown the batch error and its forced
\* cleanup ran without a failure of the remove or of the deleteOne, no chunk
\* object of the session is left in the bucket and the session record is gone.
C16_BatchFailureCleansUp ==
    (ua.pc = "failed" /\ ua.status = "batch_error" /\ cl[1].pc = "done" /\ cl[1].ret = "cleaned")
        => objects = {} /\ db = NoSession

\* C17: once finalVideoUrl is set on the persisted session, no step removes
\* the session record or changes its uploadedChunks or its finalVideoUrl.
C17_CompletedIsTerminal ==
    [][(HasSession /\ db.finalVideoUrl # Null)
        => /\ db' # NoSession
           /\ db'.uploadedChunks = db.uploadedChunks
           /\ db'.finalVideoUrl = db.finalVideoUrl]_vars

\* the sum of the lengths of the slices
RECURSIVE SumLengths(_)
SumLengths(slices) ==
    IF slices = <<>> THEN 0
    ELSE (slices[1].end - slices[1].start) + SumLengths(Tail(slices))

\* C18: for every file size and chunk size, totalChunks is the least n with
\* n * chunkSize >= totalSize; chunk i is the bytes from i * chunkSize to the
\* smaller of (i + 1) * chunkSize and totalSize; every chunk but the last has
\* chunkSize bytes; the lengths of all chunks sum to totalSize.
C18_ChunkBoundaries ==
    LET n == Ceil(fn.totalSize, fn.chunkSize)
        sl == fn.slices
    IN  /\ n >= 0 /\ n * fn.chunkSize >= fn.totalSize
        /\ n > 0 => (n - 1) * fn.chunkSize < fn.totalSize
        /\ Len(sl) <= n
        /\ \A k \in 1..Len(sl) :
              /\ sl[k].start = (k - 1) * fn.chunkSize
              /\ sl[k].end = IF k * fn.chunkSize <= fn.totalSize
                             THEN k * fn.chunkSize ELSE fn.totalSize
              /\ k < n => sl[k].end - sl[k].start = fn.chunkSize
        /\ Len(sl) = n => SumLengths(sl) = fn.totalSize

\* a file cut in three chunks or more, the last of them shorter than the others
C18_Witness ==
    /\ fn.of = "slices"
    /\ Len(fn.slices) = Ceil(fn.totalSize, fn.chunkSize)
    /\ Len(fn.slices) >= 3
    /\ LET last == fn.slices[Len(fn.slices)]
       IN  last.end - last.start < fn.chunkSize /\ last.end - last.start > 0

\* C19: initialize accepts a file that has bytes, the content type
\* application/octet-stream and a name with a video extension, and the bucket
\* of its session is the videos bucket.
C19_OctetStreamVideoBucket ==
    ( /\ ini.status # "none"
      /\ fn.file.buffer
      /\ fn.file.mimetype = <<"application", "octet-stream">>
      /\ fn.file.ext \in VideoExtensions )
    => /\ ini.status = "ok"
       /\ ini.bucket = "videos"
       /\ HasSession /\ db.bucket = "videos"

\* an application/octet-stream file named *.mp4 was initialized for a folder
\* other than videos
C19_Witness ==
    /\ ini.status = "ok"
    /\ fn.file.mimetype = <<"application", "octet-stream">>
    /\ fn.file.ext = "mp4"
    /\ fn.folder = "profile"
    /\ HasSession /\ db.bucket = "videos"

\* C20: initialize rejects a file without bytes and a file that matches none
\* of the rules (content type video/*, name with a video extension,
\* application/octet-stream with a .mkv name); after the rejection there is no
\* session record and the bucket is as it was.
C20_InitializeRejects ==
    ( /\ ini.status # "none"
      /\ \/ ~fn.file.buffer
         \/ ~ \/ fn.file.mimetype[1] = "video"
              \/ fn.file.ext \in {"mp4", "mov", "avi", "wmv", "mkv", "flv", "webm"}
              \/ (fn.file.mimetype = <<"application", "octet-stream">> /\ fn.file.ext = "mkv") )
    => /\ ini.status = "error"
       /\ ~HasSession
       /\ objects = {} /\ manifest = {}

\* a file with bytes that matches none of the rules was rejected
C20_Witness ==
    /\ ini.status = "error"
    /\ fn.file.buffer
    /\ fn.file.mimetype = <<"application", "octet-stream">>
    /\ fn.file.ext = "txt"
    /\ ~HasSession

\* C21: a getUploadProgress call changes neither the session record nor the
\* bucket, and the counts, isComplete and finalVideoUrl it returns are those of
\* the persisted session at the read (an error when there is no record).
C21_ProgressReadOnly ==
    [][pr' # pr =>
        /\ db' = db /\ objects' = objects /\ manifest' = manifest
        /\ IF HasSession
           THEN /\ pr'.status = "ok"
                /\ pr'.uploadedChunks = Len(db.uploadedChunks)
                /\ pr'.totalChunks = db.totalChunks
                /\ pr'.isComplete = db.isComplete
                /\ pr'.finalVideoUrl = db.finalVideoUrl
           ELSE pr'.status = "error"]_vars

\* the progress of a completed two-chunk session was read
C21_Witness ==
    /\ pr.status = "ok" /\ HasSession
    /\ pr.uploadedChunks = 2 /\ Len(db.uploadedChunks) = 2 /\ pr.totalChunks = 2
    /\ pr.isComplete /\ pr.finalVideoUrl = ManifestUrl /\ db.finalVideoUrl = ManifestUrl

\* the uploadChunk calls that have started and not yet settled
InFlight == {w \in Workers : wk[w].pc \notin {"idle", "done"}}

\* C22: during an uploadVideoInChunks run, at most maxConcurrentChunks
\* uploadChunk calls have started and not yet settled, also after a call of
\* the batch has thrown.
C22_BoundedConcurrency ==
    ua.pc # "idle" => Cardinality(InFlight) <= ua.maxc

\* a call of a two-call batch has thrown and the cleanup has begun while the
\* other call is still in flight
C22_Witness ==
    /\ ua.pc = "cleanup" /\ ua.maxc = 2
    /\ Cardinality(InFlight) = 1
    /\ \E w \in Workers : wk[w].pc = "done" /\ wk[w].ret.status = "error"

\* C24: uploadVideoInChunks neither pauses before the next batch nor begins
\* the failure handling (forced cleanup, throw of the batch error) while an
\* uploadChunk call of the current batch is in flight.
C24_WaitsForWholeBatch ==
    (ua.pc \in {"pause", "cleanup"} \/ (ua.pc = "failed" /\ ua.status = "batch_error"))
        => InFlight = {}

\* C26: whenever uploadVideoInChunks has thrown after its session was created,
\* the forced cleanup has run for the session: neither the session record nor
\* a chunk object is left.
C26_CleanupOnEveryFailure ==
    (ua.pc = "failed" /\ ua.status # "init_error")
        => /\ cl[1].pc = "done" /\ cl[1].force
           /\ db = NoSession
           /\ objects = {}

\* the batches of a run in the order of the loop: batch k (from 1) is the
\* indices (k-1)*m .. min(k*m, totalChunks) - 1
ConsecutiveBatches(run) ==
    \A k \in 1..Len(run.dispatched) :
        run.dispatched[k] =
            {i \in 0..(run.totalChunks - 1) : (k - 1) * run.maxc <= i /\ i < k * run.maxc}

\* C28: uploadVideoInChunks dispatches the indices in consecutive batches of
\* maxConcurrentChunks (the last batch may be smaller), the calls of a batch
\* being those of its indices; it goes on to the next batch only when every
\* call of the batch has returned a result; once the loop is over, every
\* index of 0..totalChunks-1 has been dispatched, in one batch only.
C28_DispatchInBatches ==
    [][/\ ConsecutiveBatches(ua')
       /\ \A k \in 1..Len(ua'.dispatched) : ua'.dispatched[k] # {}
       /\ ua'.pc = "await"
          => \A w \in Workers :
                IF w \in BatchMembers(ua')
                THEN wk'[w].pc # "idle" /\ wk'[w].idx = ua'.batchStart + w - 1
                     /\ wk'[w].idx \in ua'.dispatched[Len(ua'.dispatched)]
                ELSE wk'[w].pc = "idle"
       /\ (ua.pc = "await" /\ ua'.pc \in {"pause", "verify"})
          => \A w \in BatchMembers(ua) :
                wk[w].pc = "done" /\ wk[w].ret.status \in {"uploaded", "already_uploaded"}
       /\ Len(ua'.dispatched) > Len(ua.dispatched)
          => ua.pc \in {"idle", "pause"}
       /\ ua'.pc \in {"verify", "save", "complete", "done"}
          => UNION {ua'.dispatched[k] : k \in 1..Len(ua'.dispatched)}
                = 0..(ua'.totalChunks - 1)]_vars

\* a run of three chunks, two at a time, is over: the batches were {0, 1}, {2}
C28_Witness ==
    /\ ua.pc = "done" /\ ua.maxc = 2 /\ ua.totalChunks = 3
    /\ ua.dispatched = <<{0, 1}, {2}>>

\* the session was created and its record has been deleted
Deleted == ini.status = "ok" /\ db = NoSession

\* C25 (the part about the chunk objects): once the forced cleanup has deleted
\* the session record, no step stores a chunk object of the session, and a
\* cleanup whose remove and deleteOne both succeeded leaves no chunk object
\* behind; the uploadChunk calls are those of indices of the session.
C25_DeletedIsTerminal ==
    [][(\A w \in Workers : wk[w].pc # "idle" => wk[w].idx < ini.totalChunks)
        => /\ Deleted => objects' \subseteq objects
           /\ (HasSession /\ db' = NoSession /\ cl'[1].ret = "cleaned")
              => objects' = {}]_vars

\* C27: a retry of an uploadChunk call whose earlier attempt was abandoned
\* while its write landed (the object of the call's path is in the bucket) is
\* not refused by the storage because the object exists (the index being one
\* of the session).
C27_RetryAfterLateWrite ==
    [][\A w \in Workers :
        ( /\ wk[w].pc = "put" /\ wk[w].failed >= 1 /\ wk[w].path \in objects
          /\ wk[w].idx < wk[w].doc.totalChunks )
        => ~W_PutError(w, "duplicate")]_vars

\* C29: whatever the manifest put answers, the completion sets finalVideoUrl
\* to the manifest URL and completedAt on its copy and issues the save; the
\* save on an existing record persists that copy and the call returns the
\* completed result with this URL.
C29_CompleteWhateverManifestPut ==
    [][\A c \in Completers :
        /\ (cp[c].pc = "put" /\ cp'[c] # cp[c])
           => /\ cp'[c].pc = "save"
              /\ cp'[c].doc.finalVideoUrl = ManifestUrl
              /\ cp'[c].doc.completedAt # NoTime
              /\ cp'[c].doc.uploadedChunks = cp[c].doc.uploadedChunks
              /\ db' = db
        /\ (cp[c].pc = "save" /\ cp'[c] # cp[c] /\ HasSession)
           => /\ db' = cp[c].doc
              /\ cp'[c].pc = "done"
              /\ cp'[c].ret.status = "completed"
              /\ cp'[c].ret.secure_url = ManifestUrl]_vars

\* a completion has returned its result although no manifest was stored
C29_Witness ==
    \E c \in Completers :
        /\ cp[c].pc = "done" /\ cp[c].ret.status = "completed"
        /\ cp[c].ret.secure_url = ManifestUrl
        /\ manifest = {}
        /\ HasSession /\ db.isComplete /\ db.finalVideoUrl = ManifestUrl
        /\ db.completedAt # NoTime

\* C30: a forced cleanup that found the session issues the remove of exactly
\* the recorded chunk paths (none recorded: no remove) and then, whether the
\* remove succeeded or failed, the deleteOne, which removes the record unless
\* the deleteOne itself fails.
C30_ForcedCleanup ==
    [][\A g \in Cleaners :
        /\ (CleanupFindResolves(g) /\ cl[g].force /\ HasSession)
           => /\ IF ChunkPaths(db) # {}
                 THEN cl'[g].pc = "remove" /\ cl'[g].paths = ChunkPaths(db)
                 ELSE cl'[g].pc = "delete"
              /\ db' = db /\ objects' = objects
        /\ (cl[g].pc = "remove" /\ cl[g].force /\ cl'[g] # cl[g])
           => /\ cl'[g].pc = "delete"
              /\ db' = db
              /\ objects' = objects \/ objects' = objects \ cl[g].paths
        /\ (cl[g].pc = "delete" /\ cl'[g] # cl[g])
           => /\ cl'[g].pc = "done"
              /\ db' = NoSession \/ (db' = db /\ cl'[g].ret = "failed")]_vars

\* the remove of a forced cleanup failed, its objects are still in the bucket,
\* and the record is deleted
C30_Witness ==
    \E g \in Cleaners :
        /\ cl[g].pc = "done" /\ cl[g].force /\ cl[g].ret = "failed"
        /\ Deleted
        /\ objects # {}

\* C23: the validation accepts a profile image exactly when its size is at
\* most 5 MiB and its content type is image/jpeg, image/jpg, image/png,
\* image/gif or image/webp; a larger file is refused with FILE_SIZE_EXCEEDED
\* whatever its type, a file within the limit of another type with
\* INVALID_FILE_TYPE.
C23_ProfileImageValidation ==
    fn.result.error # "pending" =>
        LET withinLimit == fn.size <= 5 * 1024 * 1024
            imageType == fn.mimetype \in {<<"image", "jpeg">>, <<"image", "jpg">>,
                                          <<"image", "png">>, <<"image", "gif">>,
                                          <<"image", "webp">>}
        IN  /\ fn.result.success <=> (withinLimit /\ imageType)
            /\ ~withinLimit => fn.result.error = "FILE_SIZE_EXCEEDED"
            /\ (withinLimit /\ ~imageType) => fn.result.error = "INVALID_FILE_TYPE"
            /\ fn.result.success => fn.result.error = "none"

\* a PNG of exactly 5 MiB was accepted
C23_Witness ==
    /\ fn.of = "profile"
    /\ fn.size = 5 * 1024 * 1024 /\ fn.mimetype = <<"image", "png">>
    /\ fn.result.success

\* what a cleanupChunks call that returned normally has logged
CleanupOutcomes == {"not_found", "skipped", "cleaned", "failed"}

\* C31: a cleanupChunks call never ends with an error of its own: whatever the
\* session it reads (none, in progress, complete), whatever the outcome of the
\* remove and of the deleteOne, it returns; and the error an
\* uploadVideoInChunks run throws after the cleanup of a failed batch is the
\* error of that batch.
C31_CleanupNeverThrows ==
    [][ /\ \A g \in Cleaners :
            (cl[g].pc \in {"find", "remove", "delete"} /\ cl'[g].pc # cl[g].pc)
            => \/ cl'[g].pc \in {"remove", "delete"}
               \/ cl'[g].pc = "done" /\ cl'[g].ret \in CleanupOutcomes
        /\ (ua.pc = "cleanup" /\ ua'.pc # "cleanup")
            => /\ cl[1].pc = "done" /\ cl[1].ret \in CleanupOutcomes
               /\ ua'.pc = "failed" /\ ua'.status = "batch_error" ]_vars

\* a run threw the error of its batch after a cleanup whose deleteOne was rejected
C31_Witness ==
    /\ ua.pc = "failed" /\ ua.status = "batch_error"
    /\ cl[1].pc = "done" /\ cl[1].ret = "failed"
    /\ db # NoSession

\* C32: once the persisted session is isComplete, no step adds a chunk index
\* to its uploadedChunks: an uploadChunk call appends no record, whatever its
\* index argument.
C32_FrozenWhenComplete ==
    [][(HasSession /\ db.isComplete /\ db' # NoSession)
        => ChunkIndices(db') \subseteq ChunkIndices(db)]_vars

\* C33: when the storage refuses the put of a chunk of the session with a
\* payload-too-large error, the uploadChunk call fails at that step, without a further attempt.  (The catch
\* block of the retry loop is the same for every kind of error, so the step
\* W_PutError does not depend on its kind.)
C33_TooLargeNotRetried ==
    [][\A w \in Workers :
        (W_PutError(w, "too_large") /\ wk[w].idx < wk[w].doc.totalChunks)
        => wk'[w].pc = "done" /\ wk'[w].ret.status = "error"]_vars

\* an uploadChunk call under way, and one that is over
Running(w) == wk[w].pc \notin {"idle", "done"}

\* C34: every uploadChunk call ends, returning or throwing, after at most
\* MAX_RETRIES attempts, and every uploadVideoInChunks run (with
\* maxConcurrentChunks >= 1) ends with a result or an error.
C34_Termination ==
    /\ [](\A w \in Workers : wk[w].att <= MAX_RETRIES)
    /\ \A w \in Workers : Running(w) ~> ~Running(w)
    /\ (ua.pc # "idle") ~> (ua.pc \in {"done", "failed"})

\* a call threw after its last attempt and the run ended with the batch error
C34_Witness ==
    /\ ua.pc = "failed" /\ ua.status = "batch_error"
    /\ \E w \in Workers :
          wk[w].pc = "done" /\ wk[w].ret.status = "error" /\ wk[w].att = MAX_RETRIES
    /\ \A w \in Workers : ~Running(w)

\* C35: the wait after failed attempt n, 1 <= n < 5, is
\* min(2000 * 2^(n-1) + jitter, 30000): at most the cap of 30000 ms and at least
\* min(2000 * 2^(n-1), 30000); after the fifth failed attempt there is no wait.
C35_BackoffDelay ==
    fn.result.then # "pending" =>
        LET n == fn.uploadAttempts
            base == <<2000, 4000, 8000, 16000, 32000>>[n]
            capped(d) == IF d < 30000 THEN d ELSE 30000
        IN  IF n < 5
            THEN /\ fn.result.then = "wait"
                 /\ fn.jitter >= 0
                 /\ fn.result.waitTime = capped(base + fn.jitter)
                 /\ fn.result.waitTime <= 30000
                 /\ fn.result.waitTime >= capped(base)
            ELSE fn.result.then = "throw"

\* the longest wait: after the fourth failed attempt, with the largest jitter
C35_Witness ==
    /\ fn.of = "backoff" /\ fn.uploadAttempts = 4 /\ fn.jitter = 1999
    /\ fn.result.then = "wait" /\ fn.result.waitTime = 17999

\* C36: the session record is removed only by the deleteOne of a forced
\* cleanup: no step of initialize, uploadChunk, complete, getUploadProgress
\* or of a cleanup with force = false removes it.
C36_DeletedOnlyByForcedCleanup ==
    [][(db # NoSession /\ db' = NoSession)
        => \E g \in Cleaners :
              /\ cl[g].pc = "delete" /\ cl[g].force
              /\ cl'[g].pc = "done"
              /\ wk' = wk /\ cp' = cp /\ pr' = pr /\ ini' = ini]_vars

\* a session that getUploadProgress has reported was deleted by a forced
\* cleanup, after the remove of its chunk objects
C36_Witness ==
    /\ Deleted
    /\ pr.status = "ok" /\ pr.uploadedChunks >= 1
    /\ cl[1].pc = "done" /\ cl[1].force /\ cl[1].ret = "cleaned"
    /\ objects = {}

\* C37: while no cleanup is under way, every chunk record of the persisted
\* session names an object that is in the bucket, also after a cleanup with
\* force = false of a session that is not complete.
C37_RecordsNameObjects ==
    (HasSession /\ \A g \in Cleaners : cl[g].pc \in {"idle", "done"})
    => ChunkPaths(db) \subseteq objects

\* a completeChunkedUpload call that has issued the manifest put
IssuedPut(c) ==
    \/ cp[c].pc \in {"put", "save"}
    \/ cp[c].pc = "done" /\ cp[c].ret.status = "completed"

\* C38: of the completeChunkedUpload calls under way on a session at most one
\* issues the manifest put (the others answer already_completed), and the
\* calls that return a URL return the same one.
C38_OneManifestPut ==
    /\ Cardinality({c \in Completers : IssuedPut(c)}) <= 1
    /\ \A c1, c2 \in Completers :
          ( /\ cp[c1].pc = "done" /\ cp[c1].ret.secure_url # Null
            /\ cp[c2].pc = "done" /\ cp[c2].ret.secure_url # Null )
          => cp[c1].ret.secure_url = cp[c2].ret.secure_url

\* C39: every file that initialize accepts gets a session whose bucket is the
\* video bucket, whatever its content type, its name and the folder.
C39_AcceptedFileInVideoBucket ==
    (fn.of = "initialize" /\ ini.status = "ok")
    => ini.bucket = "videos" /\ HasSession /\ db.bucket = "videos"

\* C40: every session created by initialize has totalChunks >= 1; no
\* uploadVideoInChunks run of a zero-byte buffer ends completed on a session of
\* zero chunks.
C40_AtLeastOneChunk ==
    /\ HasSession => db.totalChunks >= 1
    /\ ua.pc = "done" => ua.totalChunks >= 1

====
